---- MODULE Spec2Model ----
(***************************************************************************)
(* Investment fund request lifecycle of sentriex: the handlers             *)
(* subscribeToFund, redeemFromFund, cancelRequest,                         *)
(* patchInvestmentFundRequest and activateRequest, run by concurrent       *)
(* request workers against one shared relational store.                    *)
(*                                                                         *)
(* The store is modelled at READ COMMITTED: a transaction's writes sit in  *)
(* a per-worker buffer (trx) until its commit step applies them; row locks *)
(* (reqLock, balLock) are held from acquisition to commit or rollback.     *)
(* Decimal quantities are integers scaled by Scale.                        *)
(***************************************************************************)
EXTENDS Integers, FiniteSets, Sequences, TLC

\* ------------------------------------------------------------------ bounds
NumWorkers == 2
MaxRequests == 2
DecimalPlaces == 1

Workers == 1..NumWorkers
RequestIds == 1..MaxRequests

\* ------------------------------------------------------- decimal arithmetic
Scale == 10 ^ DecimalPlaces
Dec(n) == n * Scale

\* BigNumber dividedBy / times on scaled integers, rounding half up to the
\* declared precision.
DecDiv(a, b) == ((2 * a * Scale) + b) \div (2 * b)
DecMul(a, b) == ((2 * a * b) + Scale) \div (2 * Scale)

\* ------------------------------------------------------------------ inputs
\* Two users: the first holds a balance in the fund's currency, the second an
\* empty one.
Users == {1, 2}
InitialBalances == [u \in Users |-> IF u = 1 THEN Dec(1000) ELSE 0]
Amounts == {Dec(400), Dec(700)}
Prices == {Dec(2)}
Funds == {"fund"}
PatchStatuses == {"APPROVED", "DECLINED", "CANCELED"}
Tokens == {"tokenA"}

\* req.params.id, req.body and the two-factor flags of a subscribeToFund call:
\* an unknown fund, an unverified two-factor user, and the calls that pass.
SubscribeInputs ==
  {[id |-> "missing", amount |-> Dec(400), twofa |-> FALSE, twofaIsVerified |-> FALSE],
   [id |-> "fund", amount |-> Dec(400), twofa |-> TRUE, twofaIsVerified |-> FALSE]}
  \cup {[id |-> "fund", amount |-> a, twofa |-> t, twofaIsVerified |-> t] :
          a \in Amounts, t \in BOOLEAN}

\* The same for redeemFromFund; amount and percent are 0 when not given.
RedeemInputs ==
  {[id |-> "fund", amount |-> 0, percent |-> 0,
    twofa |-> FALSE, twofaIsVerified |-> FALSE],
   [id |-> "missing", amount |-> Dec(50), percent |-> 0,
    twofa |-> FALSE, twofaIsVerified |-> FALSE],
   [id |-> "fund", amount |-> Dec(50), percent |-> 0,
    twofa |-> TRUE, twofaIsVerified |-> FALSE]}
  \cup {[id |-> "fund", amount |-> b[1], percent |-> b[2],
          twofa |-> t, twofaIsVerified |-> t] :
          b \in {<<Dec(50), 0>>, <<0, Scale \div 2>>}, t \in BOOLEAN}

\* ---------------------------------------------------------------- statuses
PENDING_EMAIL_VERIFICATION == "PENDING_EMAIL_VERIFICATION"
PENDING == "PENDING"
APPROVED == "APPROVED"
DECLINED == "DECLINED"
CANCELED == "CANCELED"
TerminalStatuses == {APPROVED, DECLINED, CANCELED}

\* ------------------------------------------------------------- store rows
NoRequest == [type |-> "none", userId |-> 0, amount |-> 0, requestPercent |-> 0,
              status |-> "none", refunded |-> FALSE, authenticationToken |-> "none"]

NoTrx == [req |-> 0, row |-> NoRequest, balUser |-> 0, balAmount |-> 0,
          sharesDelta |-> 0, pooledDelta |-> 0]

NoLocal == [op |-> "none", caller |-> 0, twofaUnverified |-> FALSE,
            userId |-> 0, id |-> 0, amount |-> 0, status |-> "none",
            balance |-> 0, fundRequest |-> NoRequest]

\* --------------------------------------------------------------- responses
Ok == [status |-> 200, code |-> 0, error |-> "none"]
FundNotFound == [status |-> 404, code |-> 0, error |-> "NotFound"]
RequestNotFound == [status |-> 404, code |-> 0, error |-> "NotFound"]
Unauthorized == [status |-> 401, code |-> 0, error |-> "Unauthorized"]

\* Thrown errors, as the error middleware sees them (status 0: no status field).
CannotCancelRequest == [status |-> 400, code |-> 48, error |-> "CannotCancelRequest"]
CannotPatchRequest == [status |-> 400, code |-> 52, error |-> "CannotPatchRequest"]
InsufficientFunds == [status |-> 400, code |-> 0, error |-> "InsufficientFunds"]
InsufficientFundCapital == [status |-> 400, code |-> 0, error |-> "InsufficientFundCapital"]
TypeError == [status |-> 0, code |-> 0, error |-> "TypeError"]
AssertionError == [status |-> 0, code |-> 0, error |-> "AssertionError"]
UnknownOperation == [status |-> 0, code |-> 0, error |-> "Error"]
InsufficientShares == [status |-> 0, code |-> 0, error |-> "InsufficientShares"]

\* app.use((err, req, res, next) => res.status(err.status || 500)...)
ErrorResponse(err) ==
  [status |-> IF err.status # 0 THEN err.status ELSE 500,
   code |-> err.code,
   error |-> IF err.status # 0 THEN err.error ELSE "InternalError"]

\* A handler invocation: the handler, the authenticated user (0: the admin
\* route, which reads no user), the request id it names (0: none), and whether
\* req.user.twofa && !req.twofaIsVerified holds of it.
Call(name, userId, id) ==
  [op |-> name, userId |-> userId, id |-> id, twofaUnverified |-> FALSE]

TwoFactorCall(name, userId, id, twofaUnverified) ==
  [Call(name, userId, id) EXCEPT !.twofaUnverified = twofaUnverified]

NoResponse == [op |-> "none", userId |-> 0, id |-> 0, twofaUnverified |-> FALSE,
               status |-> 0, code |-> 0, error |-> "none"]

\* No fetchPerformance call yet: a call is recorded with its user, the profit
\* amount and the settings row it read, and the response it sent.
NoPerformance == [userId |-> 0, profitAmount |-> 0, userRedeemProfitPercent |-> 0,
                  status |-> 0, error |-> "none", entries |-> <<>>]

VARIABLES
  requests,       \* investment_fund_requests table: id -> row
  nextId,         \* the id sequence of that table
  balances,       \* balances table: userId -> amount (the fund's currency)
  shares,         \* investment_fund_shares table: userId -> amount
  pooledCapital,  \* the fund's pooled capital
  sharePrice,     \* the fund's current share price
  reqLock,        \* request row lock: id -> holder (0: free)
  balLock,        \* balance row lock: userId -> holder (0: free)
  pc,             \* each worker's position in its handler
  local,          \* each worker's request-scoped objects
  trx,            \* each worker's uncommitted transaction writes
  res,            \* the response the last step sent (NoResponse: none)
  performance     \* the last fetchPerformance call and its response

vars == <<requests, nextId, balances, shares, pooledCapital, sharePrice,
          reqLock, balLock, pc, local, trx, res, performance>>

store == <<requests, balances, shares, pooledCapital>>

Init ==
  /\ requests = [r \in RequestIds |-> NoRequest]
  /\ nextId = 1
  /\ balances = InitialBalances
  /\ shares = [u \in Users |-> 0]
  /\ pooledCapital = 0
  /\ sharePrice \in Prices
  /\ reqLock = [r \in RequestIds |-> 0]
  /\ balLock = [u \in Users |-> 0]
  /\ pc = [w \in Workers |-> "idle"]
  /\ local = [w \in Workers |-> NoLocal]
  /\ trx = [w \in Workers |-> NoTrx]
  /\ res = NoResponse
  /\ performance = NoPerformance

\* ------------------------------------------------ computed row properties
isCancelable(r) == r.status = PENDING
refundable(r) == r.type = "subscription" /\ r.status = PENDING
isLocked(r) == r.status # PENDING

\* ---------------------------------------------------------- balance ledger
\* Balance.remove / Balance.add on the row as re-read under its lock.
remove(current, amount) ==
  IF amount <= current THEN [ok |-> TRUE, amount |-> current - amount]
  ELSE [ok |-> FALSE, amount |-> current]
add(current, amount) == current + amount

\* ------------------------------------------------------------ transactions
Exists(id) == requests[id].type # "none"

ReleaseLocks(w) ==
  /\ reqLock' = [r \in RequestIds |-> IF reqLock[r] = w THEN 0 ELSE reqLock[r]]
  /\ balLock' = [u \in Users |-> IF balLock[u] = w THEN 0 ELSE balLock[u]]

\* res.status(...).json(...), or the error middleware: the worker's run ends.
Respond(w, call, r) ==
  /\ pc' = [pc EXCEPT ![w] = "idle"]
  /\ local' = [local EXCEPT ![w] = NoLocal]
  /\ res' = [op |-> call.op, userId |-> call.userId, id |-> call.id,
             twofaUnverified |-> call.twofaUnverified,
             status |-> r.status, code |-> r.code, error |-> r.error]

\* An await: the handler goes on at `next`, nothing is sent.
Await(w, next) ==
  /\ pc' = [pc EXCEPT ![w] = next]
  /\ res' = NoResponse

\* transaction(knex, cb): cb resolved -> COMMIT applies the buffered writes.
Commit(w) ==
  LET t == trx[w] IN
  /\ requests' = IF t.req # 0 THEN [requests EXCEPT ![t.req] = t.row] ELSE requests
  /\ balances' = IF t.balUser # 0 THEN [balances EXCEPT ![t.balUser] = t.balAmount]
                 ELSE balances
  /\ shares' = IF t.req # 0 THEN [shares EXCEPT ![t.row.userId] = @ + t.sharesDelta]
               ELSE shares
  /\ pooledCapital' = pooledCapital + t.pooledDelta
  /\ trx' = [trx EXCEPT ![w] = NoTrx]
  /\ ReleaseLocks(w)

\* transaction(knex, cb): cb rejected -> ROLLBACK drops them, the error propagates.
Rollback(w, call, err) ==
  /\ trx' = [trx EXCEPT ![w] = NoTrx]
  /\ ReleaseLocks(w)
  /\ Respond(w, call, ErrorResponse(err))
  /\ UNCHANGED <<requests, balances, shares, pooledCapital>>

\* ---------------------------------------------------------- subscribeToFund
\* A variant of SubInsert: the insert is issued without the transaction handle,
\* so the row is persisted at once.
SubInsertNoTrx(w, userId, amount) ==
  /\ requests' = [requests EXCEPT ![nextId] =
       [NoRequest EXCEPT !.type = "subscription", !.userId = userId,
                         !.amount = amount, !.status = PENDING]]
  /\ trx' = [trx EXCEPT ![w] = NoTrx]
  /\ nextId' = nextId + 1

\* The insert of line 124-129, buffered in the transaction: the row takes the
\* next id of the sequence.
SubInsert(w, userId, amount) ==
  /\ trx' = [trx EXCEPT ![w] =
       [NoTrx EXCEPT !.req = nextId,
                     !.row = [NoRequest EXCEPT !.type = "subscription",
                                               !.userId = userId,
                                               !.amount = amount,
                                               !.status = PENDING]]]
  /\ nextId' = nextId + 1
  /\ UNCHANGED requests

\* A variant of SubscribeToFund: the two-factor test of lines 114-116 is left
\* out.
SubscribeToFundNoTwoFactor(w) ==
  /\ pc[w] = "idle"
  /\ \E userId \in Users, input \in SubscribeInputs :
       LET call == TwoFactorCall("subscribeToFund", userId, 0,
                                 input.twofa /\ ~input.twofaIsVerified)
           amount == input.amount
       IN
       IF input.id \notin Funds
         THEN /\ Respond(w, call, FundNotFound)
              /\ UNCHANGED <<requests, nextId, trx>>
       ELSE /\ nextId <= MaxRequests
            /\ SubInsert(w, userId, amount)
            /\ local' = [local EXCEPT ![w] =
                 [NoLocal EXCEPT !.op = "subscribeToFund", !.caller = userId,
                                 !.twofaUnverified = call.twofaUnverified,
                                 !.userId = userId,
                                 !.id = nextId, !.amount = amount,
                                 !.balance = balances[userId]]]
            /\ Await(w, "sub_debit")
  /\ UNCHANGED <<balances, shares, pooledCapital, sharePrice, performance, reqLock, balLock>>

\* Lines 93-129: the fund and the balance are fetched outside any transaction,
\* then the two-factor check; the transaction opens and the insert is issued.
SubscribeToFund(w) ==
  /\ pc[w] = "idle"
  /\ \E userId \in Users, input \in SubscribeInputs :
       LET call == TwoFactorCall("subscribeToFund", userId, 0,
                                 input.twofa /\ ~input.twofaIsVerified)
           amount == input.amount
       IN
       IF input.id \notin Funds
         THEN /\ Respond(w, call, FundNotFound)
              /\ UNCHANGED <<requests, nextId, trx>>
       ELSE IF input.twofa /\ ~input.twofaIsVerified
         THEN /\ Respond(w, call, Unauthorized)
              /\ UNCHANGED <<requests, nextId, trx>>
       ELSE /\ nextId <= MaxRequests
            /\ SubInsert(w, userId, amount)
            /\ local' = [local EXCEPT ![w] =
                 [NoLocal EXCEPT !.op = "subscribeToFund", !.caller = userId,
                                 !.twofaUnverified = call.twofaUnverified,
                                 !.userId = userId,
                                 !.id = nextId, !.amount = amount,
                                 !.balance = balances[userId]]]
            /\ Await(w, "sub_debit")
  /\ UNCHANGED <<balances, shares, pooledCapital, sharePrice, performance, reqLock, balLock>>

\* A variant of SubDebit: the amount is checked against the balance object
\* fetched before the transaction, and the row is then decremented.
SubDebitStaleCheck(w) ==
  /\ pc[w] = "sub_debit"
  /\ balLock[local[w].userId] = 0
  /\ LET u == local[w].userId
         r == remove(local[w].balance, local[w].amount)
     IN IF r.ok
          THEN /\ balLock' = [balLock EXCEPT ![u] = w]
               /\ trx' = [trx EXCEPT ![w].balUser = u,
                                     ![w].balAmount = balances[u] - local[w].amount]
               /\ Await(w, "sub_commit")
               /\ UNCHANGED <<requests, balances, shares, pooledCapital, reqLock,
                              local>>
          ELSE Rollback(w, TwoFactorCall("subscribeToFund", u, 0,
                                         local[w].twofaUnverified),
                        InsufficientFunds)
  /\ UNCHANGED <<nextId, sharePrice, performance>>

\* Line 130: balance.remove(amount, trx) locks the balance row, re-reads it and
\* debits it; its rejection rejects Promise.all and rolls the transaction back.
SubDebit(w) ==
  /\ pc[w] = "sub_debit"
  /\ balLock[local[w].userId] = 0
  /\ LET u == local[w].userId
         r == remove(balances[u], local[w].amount)
     IN IF r.ok
          THEN /\ balLock' = [balLock EXCEPT ![u] = w]
               /\ trx' = [trx EXCEPT ![w].balUser = u, ![w].balAmount = r.amount]
               /\ Await(w, "sub_commit")
               /\ UNCHANGED <<requests, balances, shares, pooledCapital, reqLock,
                              local>>
          ELSE Rollback(w, TwoFactorCall("subscribeToFund", u, 0,
                                         local[w].twofaUnverified),
                        InsufficientFunds)
  /\ UNCHANGED <<nextId, sharePrice, performance>>

\* Lines 132-134: the transaction commits and the request is returned.
SubCommit(w) ==
  /\ pc[w] = "sub_commit"
  /\ Commit(w)
  /\ Respond(w, TwoFactorCall("subscribeToFund", local[w].userId, local[w].id,
                              local[w].twofaUnverified), Ok)
  /\ UNCHANGED <<nextId, sharePrice, performance>>

\* ----------------------------------------------------------- redeemFromFund
\* Lines 137-168: one insert, outside any transaction.
RedeemFromFund(w) ==
  /\ pc[w] = "idle"
  /\ \E userId \in Users, input \in RedeemInputs :
       LET call == TwoFactorCall("redeemFromFund", userId, 0,
                                 input.twofa /\ ~input.twofaIsVerified)
           amount == input.amount
           percent == input.percent
       IN
       IF amount = 0 /\ percent = 0
         THEN /\ Respond(w, call, ErrorResponse(AssertionError))
              /\ UNCHANGED <<requests, nextId>>
       ELSE IF input.id \notin Funds
         THEN /\ Respond(w, call, FundNotFound)
              /\ UNCHANGED <<requests, nextId>>
       ELSE IF input.twofa /\ ~input.twofaIsVerified
         THEN /\ Respond(w, call, Unauthorized)
              /\ UNCHANGED <<requests, nextId>>
       ELSE /\ nextId <= MaxRequests
            /\ requests' = [requests EXCEPT ![nextId] =
                 [NoRequest EXCEPT !.type = "redemption",
                                   !.userId = userId,
                                   !.amount = amount,
                                   !.requestPercent = percent,
                                   !.status = PENDING]]
            /\ nextId' = nextId + 1
            /\ Respond(w, [call EXCEPT !.id = nextId], Ok)
  /\ UNCHANGED <<balances, shares, pooledCapital, sharePrice, performance, reqLock, balLock, trx>>

\* ------------------------------------------------------------ cancelRequest
\* A variant of CancelRequest: the isCancelable test of lines 185-187 is left out.
CancelRequestNoCheck(w) ==
  /\ pc[w] = "idle"
  /\ \E id \in RequestIds, user \in Users :
       LET found == Exists(id) /\ requests[id].userId = user
           request == requests[id]
           call == Call("cancelRequest", user, id)
       IN IF ~found
            THEN Rollback(w, call, TypeError)
          ELSE /\ reqLock[id] = 0
               /\ LET refundUser == refundable(request)
                      result == [request EXCEPT !.status = CANCELED,
                                                !.refunded = refundUser]
                  IN /\ reqLock' = [reqLock EXCEPT ![id] = w]
                     /\ trx' = [trx EXCEPT ![w] =
                          [NoTrx EXCEPT !.req = id, !.row = result]]
                     /\ local' = [local EXCEPT ![w] =
                          [NoLocal EXCEPT !.op = "cancelRequest",
                                          !.caller = user,
                                          !.userId = request.userId, !.id = id,
                                          !.amount = result.amount]]
                     /\ Await(w, IF refundUser THEN "cancel_refund"
                                               ELSE "cancel_commit")
                     /\ UNCHANGED <<requests, balances, shares, pooledCapital,
                                    balLock>>
  /\ UNCHANGED <<nextId, sharePrice, performance>>

\* A variant of CancelRequest: the row is selected by its id alone, whoever
\* owns it.
CancelRequestAnyUser(w) ==
  /\ pc[w] = "idle"
  /\ \E id \in RequestIds, user \in Users :
       LET found == Exists(id)
           request == requests[id]
           call == Call("cancelRequest", user, id)
       IN IF ~found
            THEN Rollback(w, call, TypeError)
          ELSE /\ reqLock[id] = 0
               /\ IF ~isCancelable(request)
                    THEN Rollback(w, call, CannotCancelRequest)
                  ELSE LET refundUser == refundable(request)
                           result == [request EXCEPT !.status = CANCELED,
                                                     !.refunded = refundUser]
                       IN /\ reqLock' = [reqLock EXCEPT ![id] = w]
                          /\ trx' = [trx EXCEPT ![w] =
                               [NoTrx EXCEPT !.req = id, !.row = result]]
                          /\ local' = [local EXCEPT ![w] =
                               [NoLocal EXCEPT !.op = "cancelRequest",
                                               !.caller = user,
                                               !.userId = request.userId, !.id = id,
                                               !.amount = result.amount]]
                          /\ Await(w, IF refundUser THEN "cancel_refund"
                                                    ELSE "cancel_commit")
                          /\ UNCHANGED <<requests, balances, shares, pooledCapital,
                                         balLock>>
  /\ UNCHANGED <<nextId, sharePrice, performance>>

\* Lines 173-201: the transaction opens, the caller's request row is selected
\* FOR UPDATE, checked and updated. A row that is absent or another user's gives
\* request === undefined, which line 180 destructures before line 181 tests it.
CancelRequest(w) ==
  /\ pc[w] = "idle"
  /\ \E id \in RequestIds, user \in Users :
       LET found == Exists(id) /\ requests[id].userId = user
           request == requests[id]
           call == Call("cancelRequest", user, id)
       IN IF ~found
            THEN Rollback(w, call, TypeError)
          ELSE /\ reqLock[id] = 0
               /\ IF ~isCancelable(request)
                    THEN Rollback(w, call, CannotCancelRequest)
                  ELSE LET refundUser == refundable(request)
                           result == [request EXCEPT !.status = CANCELED,
                                                     !.refunded = refundUser]
                       IN /\ reqLock' = [reqLock EXCEPT ![id] = w]
                          /\ trx' = [trx EXCEPT ![w] =
                               [NoTrx EXCEPT !.req = id, !.row = result]]
                          /\ local' = [local EXCEPT ![w] =
                               [NoLocal EXCEPT !.op = "cancelRequest",
                                               !.caller = user,
                                               !.userId = request.userId, !.id = id,
                                               !.amount = result.amount]]
                          /\ Await(w, IF refundUser THEN "cancel_refund"
                                                    ELSE "cancel_commit")
                          /\ UNCHANGED <<requests, balances, shares, pooledCapital,
                                         balLock>>
  /\ UNCHANGED <<nextId, sharePrice, performance>>

\* A variant of CancelRefund: refunded is recorded but the credit is not made.
CancelRefundSkipped(w) ==
  /\ pc[w] = "cancel_refund"
  /\ Await(w, "cancel_commit")
  /\ UNCHANGED <<requests, nextId, balances, shares, pooledCapital, sharePrice, performance,
                 reqLock, balLock, local, trx>>

\* Lines 203-205: balance.add(result.amount, trx) locks the balance row and
\* credits it.
CancelRefund(w) ==
  /\ pc[w] = "cancel_refund"
  /\ balLock[local[w].userId] = 0
  /\ LET u == local[w].userId IN
       /\ balLock' = [balLock EXCEPT ![u] = w]
       /\ trx' = [trx EXCEPT ![w].balUser = u,
                             ![w].balAmount = add(balances[u], local[w].amount)]
  /\ Await(w, "cancel_commit")
  /\ UNCHANGED <<requests, nextId, balances, shares, pooledCapital, sharePrice, performance,
                 reqLock, local>>

\* Lines 206-208: the transaction commits.
CancelCommit(w) ==
  /\ pc[w] = "cancel_commit"
  /\ Commit(w)
  /\ Respond(w, Call("cancelRequest", local[w].caller, local[w].id), Ok)
  /\ UNCHANGED <<nextId, sharePrice, performance>>

\* ----------------------------------------------- InvestmentFund (the model)
\* Each of the four methods runs one transaction on the request it is handed:
\* the status write and the ledger movement. They are given as the writes the
\* transaction buffers, or the error that aborts it. A redemption that would
\* take the pooled capital or the share record below zero is aborted: the
\* ledger keeps both at or above zero.
approveSubscription(fundRequest, current) ==
  [ok |-> TRUE, err |-> Ok, balanceCredit |-> 0,
   row |-> [current EXCEPT !.status = APPROVED],
   sharesDelta |-> DecDiv(fundRequest.amount, sharePrice),
   pooledDelta |-> fundRequest.amount]

declineSubscription(fundRequest, current) ==
  [ok |-> TRUE, err |-> Ok, balanceCredit |-> fundRequest.amount,
   row |-> [current EXCEPT !.status = DECLINED],
   sharesDelta |-> 0, pooledDelta |-> 0]

\* Variants of approveRedemption: one without the test of the pooled capital,
\* one without the test of the shares held.
approveRedemptionNoCapitalCheck(fundRequest, current) ==
  LET held == shares[fundRequest.userId]
      quantity == IF fundRequest.requestPercent # 0
                    THEN DecMul(fundRequest.requestPercent, held)
                    ELSE fundRequest.amount
      fiat == DecMul(quantity, sharePrice)
  IN IF quantity > held
       THEN [ok |-> FALSE, err |-> InsufficientShares, balanceCredit |-> 0,
             row |-> current, sharesDelta |-> 0, pooledDelta |-> 0]
       ELSE [ok |-> TRUE, err |-> Ok, balanceCredit |-> fiat,
             row |-> [current EXCEPT !.status = APPROVED],
             sharesDelta |-> 0 - quantity, pooledDelta |-> 0 - fiat]

approveRedemptionNoSharesCheck(fundRequest, current) ==
  LET held == shares[fundRequest.userId]
      quantity == IF fundRequest.requestPercent # 0
                    THEN DecMul(fundRequest.requestPercent, held)
                    ELSE fundRequest.amount
      fiat == DecMul(quantity, sharePrice)
  IN IF fiat > pooledCapital
       THEN [ok |-> FALSE, err |-> InsufficientFundCapital, balanceCredit |-> 0,
             row |-> current, sharesDelta |-> 0, pooledDelta |-> 0]
       ELSE [ok |-> TRUE, err |-> Ok, balanceCredit |-> fiat,
             row |-> [current EXCEPT !.status = APPROVED],
             sharesDelta |-> 0 - quantity, pooledDelta |-> 0 - fiat]

approveRedemption(fundRequest, current) ==
  LET held == shares[fundRequest.userId]
      quantity == IF fundRequest.requestPercent # 0
                    THEN DecMul(fundRequest.requestPercent, held)
                    ELSE fundRequest.amount
      fiat == DecMul(quantity, sharePrice)
  IN IF fiat > pooledCapital
       THEN [ok |-> FALSE, err |-> InsufficientFundCapital, balanceCredit |-> 0,
             row |-> current, sharesDelta |-> 0, pooledDelta |-> 0]
     ELSE IF quantity > held
       THEN [ok |-> FALSE, err |-> InsufficientShares, balanceCredit |-> 0,
             row |-> current, sharesDelta |-> 0, pooledDelta |-> 0]
       ELSE [ok |-> TRUE, err |-> Ok, balanceCredit |-> fiat,
             row |-> [current EXCEPT !.status = APPROVED],
             sharesDelta |-> 0 - quantity, pooledDelta |-> 0 - fiat]

declineRedemption(fundRequest, current) ==
  [ok |-> TRUE, err |-> Ok, balanceCredit |-> 0,
   row |-> [current EXCEPT !.status = DECLINED],
   sharesDelta |-> 0, pooledDelta |-> 0]

\* ----------------------------------------------- patchInvestmentFundRequest
\* A variant of PatchInvestmentFundRequest: the isLocked test of lines 228-230
\* is left out.
PatchInvestmentFundRequestNoCheck(w) ==
  /\ pc[w] = "idle"
  /\ \E id \in RequestIds, status \in PatchStatuses :
       LET call == Call("patchInvestmentFundRequest", 0, id) IN
       IF ~Exists(id)
         THEN Respond(w, call, RequestNotFound)
       ELSE LET fundRequest == requests[id] IN
            IF status \notin {APPROVED, DECLINED}
              THEN Respond(w, call, ErrorResponse(UnknownOperation))
            ELSE /\ local' = [local EXCEPT ![w] =
                      [NoLocal EXCEPT !.op = "patchInvestmentFundRequest",
                                      !.userId = fundRequest.userId, !.id = id,
                                      !.amount = fundRequest.amount,
                                      !.status = status,
                                      !.fundRequest = fundRequest]]
                 /\ Await(w, "patch_apply")
  /\ UNCHANGED <<requests, nextId, balances, shares, pooledCapital, sharePrice, performance,
                 reqLock, balLock, trx>>

\* Lines 215-230 and the else of 241-243: the fund and the request are read
\* outside any transaction and without a lock; isLocked is tested on that read.
PatchInvestmentFundRequest(w) ==
  /\ pc[w] = "idle"
  /\ \E id \in RequestIds, status \in PatchStatuses :
       LET call == Call("patchInvestmentFundRequest", 0, id) IN
       IF ~Exists(id)
         THEN Respond(w, call, RequestNotFound)
       ELSE LET fundRequest == requests[id] IN
            IF isLocked(fundRequest)
              THEN Respond(w, call, ErrorResponse(CannotPatchRequest))
            ELSE IF status \notin {APPROVED, DECLINED}
              THEN Respond(w, call, ErrorResponse(UnknownOperation))
            ELSE /\ local' = [local EXCEPT ![w] =
                      [NoLocal EXCEPT !.op = "patchInvestmentFundRequest",
                                      !.userId = fundRequest.userId, !.id = id,
                                      !.amount = fundRequest.amount,
                                      !.status = status,
                                      !.fundRequest = fundRequest]]
                 /\ Await(w, "patch_apply")
  /\ UNCHANGED <<requests, nextId, balances, shares, pooledCapital, sharePrice, performance,
                 reqLock, balLock, trx>>

\* Variants of Dispatch: a subscription's approval routed to the decline
\* method, and a subscription's decline falling through to the redemption's.
DispatchApproveAsDecline(fundRequest, status, current) ==
  IF fundRequest.type = "subscription"
    THEN declineSubscription(fundRequest, current)
  ELSE IF status = APPROVED
    THEN approveRedemption(fundRequest, current)
  ELSE declineRedemption(fundRequest, current)

DispatchDeclineAsRedemption(fundRequest, status, current) ==
  IF fundRequest.type = "subscription" /\ status = APPROVED
    THEN approveSubscription(fundRequest, current)
  ELSE IF status = APPROVED
    THEN approveRedemption(fundRequest, current)
  ELSE declineRedemption(fundRequest, current)

\* A variant of Dispatch: a redemption's approval routed to the decline method.
DispatchRedemptionAsDecline(fundRequest, status, current) ==
  IF fundRequest.type = "subscription" /\ status = APPROVED
    THEN approveSubscription(fundRequest, current)
  ELSE IF fundRequest.type = "subscription" /\ status = DECLINED
    THEN declineSubscription(fundRequest, current)
  ELSE declineRedemption(fundRequest, current)

\* Lines 232-240: the (type, status) dispatch on the request as it was read.
Dispatch(fundRequest, status, current) ==
  IF fundRequest.type = "subscription" /\ status = APPROVED
    THEN approveSubscription(fundRequest, current)
  ELSE IF fundRequest.type = "subscription" /\ status = DECLINED
    THEN declineSubscription(fundRequest, current)
  ELSE IF fundRequest.type = "redemption" /\ status = APPROVED
    THEN approveRedemption(fundRequest, current)
  ELSE declineRedemption(fundRequest, current)

\* A variant of ModelTransaction: the status is written outside the
\* transaction, ahead of the ledger movement.
ModelTransactionStatusFirst(w, call, out) ==
  LET id == local[w].id
      u == local[w].userId
  IN /\ reqLock[id] = 0
     /\ out.balanceCredit # 0 => balLock[u] = 0
     /\ IF ~out.ok
          THEN Rollback(w, call, out.err)
        ELSE /\ requests' = [requests EXCEPT ![id] = out.row]
             /\ reqLock' = [reqLock EXCEPT ![id] = w]
             /\ balLock' = IF out.balanceCredit # 0
                             THEN [balLock EXCEPT ![u] = w] ELSE balLock
             /\ trx' = [trx EXCEPT ![w] =
                  [req |-> id, row |-> out.row,
                   balUser |-> IF out.balanceCredit # 0 THEN u ELSE 0,
                   balAmount |-> IF out.balanceCredit # 0
                                   THEN add(balances[u], out.balanceCredit) ELSE 0,
                   sharesDelta |-> out.sharesDelta,
                   pooledDelta |-> out.pooledDelta]]
             /\ Await(w, "patch_commit")
             /\ UNCHANGED <<balances, shares, pooledCapital, local>>

\* The transaction of the model method: it takes the request row (and the
\* balance row it credits) to write them, and buffers its writes; an error
\* aborts it.
ModelTransaction(w, call, out) ==
  LET id == local[w].id
      u == local[w].userId
  IN /\ reqLock[id] = 0
     /\ out.balanceCredit # 0 => balLock[u] = 0
     /\ IF ~out.ok
          THEN Rollback(w, call, out.err)
        ELSE /\ reqLock' = [reqLock EXCEPT ![id] = w]
             /\ balLock' = IF out.balanceCredit # 0
                             THEN [balLock EXCEPT ![u] = w] ELSE balLock
             /\ trx' = [trx EXCEPT ![w] =
                  [req |-> id, row |-> out.row,
                   balUser |-> IF out.balanceCredit # 0 THEN u ELSE 0,
                   balAmount |-> IF out.balanceCredit # 0
                                   THEN add(balances[u], out.balanceCredit) ELSE 0,
                   sharesDelta |-> out.sharesDelta,
                   pooledDelta |-> out.pooledDelta]]
             /\ Await(w, "patch_commit")
             /\ UNCHANGED <<requests, balances, shares, pooledCapital, local>>

\* Lines 232-240: the handler awaits the model method it dispatched to, handing
\* it the request as it was read.
PatchApply(w) ==
  /\ pc[w] = "patch_apply"
  /\ ModelTransaction(w, Call("patchInvestmentFundRequest", 0, local[w].id),
                      Dispatch(local[w].fundRequest, local[w].status,
                               requests[local[w].id]))
  /\ UNCHANGED <<nextId, sharePrice, performance>>

\* Line 245: the model method's transaction commits and the handler answers.
PatchCommit(w) ==
  /\ pc[w] = "patch_commit"
  /\ Commit(w)
  /\ Respond(w, Call("patchInvestmentFundRequest", 0, local[w].id), Ok)
  /\ UNCHANGED <<nextId, sharePrice, performance>>

\* ---------------------------------------------------------- activateRequest
\* Lines 248-264: the query has no .first(), so request is an array: never
\* falsy, and without a $query method.
ActivateRequest(w) ==
  /\ pc[w] = "idle"
  /\ \E user \in Users, authenticationToken \in Tokens :
       LET request == {id \in RequestIds :
                         /\ Exists(id)
                         /\ requests[id].userId = user
                         /\ requests[id].authenticationToken = authenticationToken
                         /\ requests[id].status = PENDING_EMAIL_VERIFICATION}
           falsy == FALSE
           call == Call("activateRequest", user, 0)
       IN IF falsy
            THEN Respond(w, call, RequestNotFound)
            ELSE Respond(w, call, ErrorResponse(TypeError))
  /\ UNCHANGED <<requests, nextId, balances, shares, pooledCapital, sharePrice, performance,
                 reqLock, balLock, trx>>

\* --------------------------------------------------------------------- Next
Next ==
  \E w \in Workers :
    \/ SubscribeToFund(w)
    \/ SubDebit(w)
    \/ SubCommit(w)
    \/ RedeemFromFund(w)
    \/ CancelRequest(w)
    \/ CancelRefund(w)
    \/ CancelCommit(w)
    \/ PatchInvestmentFundRequest(w)
    \/ PatchApply(w)
    \/ PatchCommit(w)
    \/ ActivateRequest(w)

Spec == Init /\ [][Next]_vars

\* --------------------------------------------------------- fetchPerformance
\* What f.calculateTotalProfitAmount(userId) resolves to, the
\* userRedeemProfitPercent of the settings row (values whose 1 - x is exact in
\* floating point), and the share amounts the users may hold.
ProfitAmounts == {0, Dec(100), Dec(150)}
ProfitPercents == {0, (3 * Scale) \div 10, Scale \div 2}
PerformanceShares == {0, Dec(50), Dec(75), Dec(250)}

Abs(x) == IF x < 0 THEN 0 - x ELSE x

\* <<quotient, remainder>> of a * 10^n by b, for a >= 0 and b > 0, one decimal
\* digit at a time.
RECURSIVE LongDivision(_, _, _)
LongDivision(a, b, n) ==
  IF n = 0 THEN <<a \div b, a % b>>
  ELSE LET p == LongDivision(a, b, n - 1)
       IN <<(p[1] * 10) + ((p[2] * 10) \div b), (p[2] * 10) % b>>

\* a.dividedBy(b).times(100).toFixed(2), in hundredths of a percent point.
\* BigNumber does not throw on a zero divisor: the quotient is Infinity, or NaN
\* for 0 / 0, and toFixed prints it.
PercentToFixed(a, b) ==
  IF b = 0
    THEN [kind |-> IF a = 0 THEN "NaN"
                   ELSE IF a > 0 THEN "Infinity" ELSE "-Infinity",
          hundredths |-> 0]
  ELSE LET p == LongDivision(Abs(a), Abs(b), 4)
           q == p[1] + (IF 2 * p[2] >= Abs(b) THEN 1 ELSE 0)
       IN [kind |-> "number",
           hundredths |-> IF (a < 0) = (b < 0) THEN q ELSE 0 - q]

\* Lines 354-371: the entry of one fund. Products of two decimals are exact,
\* in units of 1 / (Scale * Scale).
PerformanceOf(sharesAmount, price, profitAmount, userRedeemProfitPercent) ==
  LET userProfitAmount == profitAmount * userRedeemProfitPercent
      fees == profitAmount * (Scale - userRedeemProfitPercent)
      investmentValueMinusFees == (sharesAmount * price) - fees
      initialInvestment == investmentValueMinusFees - userProfitAmount
  IN [shares |-> sharesAmount,
      profitAmount |-> userProfitAmount,
      initialInvestment |-> initialInvestment,
      investmentValue |-> investmentValueMinusFees,
      profitPercent |-> PercentToFixed(userProfitAmount, initialInvestment)]

\* Lines 344-377: the funds in which the user holds shares (amount > 0), one
\* entry each, sent with status 200. (One fund: the sort of line 374 keeps it.)
FetchPerformance ==
  /\ \E userId \in Users, profitAmount \in ProfitAmounts,
        userRedeemProfitPercent \in ProfitPercents :
       performance' =
         [userId |-> userId, profitAmount |-> profitAmount,
          userRedeemProfitPercent |-> userRedeemProfitPercent,
          status |-> Ok.status, error |-> Ok.error,
          entries |-> IF shares[userId] > 0
                        THEN <<PerformanceOf(shares[userId], sharePrice, profitAmount,
                                             userRedeemProfitPercent)>>
                        ELSE <<>>]
  /\ UNCHANGED <<requests, nextId, balances, shares, pooledCapital, sharePrice,
                 reqLock, balLock, pc, local, trx, res>>

\* fetchPerformance on the stores it may read: each user holding none or some
\* shares of the fund, bought at the share price.
PerfInit ==
  /\ requests = [r \in RequestIds |-> NoRequest]
  /\ nextId = 1
  /\ sharePrice \in Prices
  /\ shares \in [Users -> PerformanceShares]
  /\ pooledCapital = DecMul(shares[1] + shares[2], sharePrice)
  /\ balances = InitialBalances
  /\ reqLock = [r \in RequestIds |-> 0]
  /\ balLock = [u \in Users |-> 0]
  /\ pc = [w \in Workers |-> "idle"]
  /\ local = [w \in Workers |-> NoLocal]
  /\ trx = [w \in Workers |-> NoTrx]
  /\ res = NoResponse
  /\ performance = NoPerformance

PerfNext == FetchPerformance

PerfSpec == PerfInit /\ [][PerfNext]_vars

\* The same program started on a store where the first user already holds
\* shares of the fund: HeldShares bought at the share price, out of the initial
\* balance, by a subscription approved earlier.
HeldShares == Dec(75)

HoldingInit ==
  /\ requests = [r \in RequestIds |-> NoRequest]
  /\ nextId = 1
  /\ sharePrice \in Prices
  /\ shares = [u \in Users |-> IF u = 1 THEN HeldShares ELSE 0]
  /\ pooledCapital = DecMul(HeldShares, sharePrice)
  /\ balances = [InitialBalances EXCEPT ![1] = @ - DecMul(HeldShares, sharePrice)]
  /\ reqLock = [r \in RequestIds |-> 0]
  /\ balLock = [u \in Users |-> 0]
  /\ pc = [w \in Workers |-> "idle"]
  /\ local = [w \in Workers |-> NoLocal]
  /\ trx = [w \in Workers |-> NoTrx]
  /\ res = NoResponse
  /\ performance = NoPerformance

HoldingSpec == HoldingInit /\ [][Next]_vars

\* =================================================================== claims
\* The step of worker w that ends its run at position `at`.
Ends(w, at) == pc[w] = at /\ pc'[w] = "idle"

\* C1: a cancelRequest and a patchInvestmentFundRequest racing on one PENDING
\* request: exactly one takes effect, and the persisted row is the winner's
\* alone, never a mix. cancelRequest alone writes refunded, with the status
\* CANCELED; the patch alone writes APPROVED or DECLINED: a persisted row
\* never carries the refund of the one under the status of the other.
C1_NoHybrid ==
  \A id \in RequestIds :
    Exists(id) /\ requests[id].refunded => requests[id].status = CANCELED

\* C2: subscribeToFund is atomic. On the committed store, a new subscription
\* row appears PENDING only together with the debit of its amount from its
\* user's balance; a step of a subscribeToFund run changes the store only when
\* it commits, and then makes both the insert and the debit; a subscribeToFund
\* that answers with an error leaves the store unchanged.
C2_SubscribeAtomic ==
  [][/\ \A id \in RequestIds :
          (~Exists(id) /\ requests'[id].type = "subscription")
          => /\ requests'[id].status = PENDING
             /\ balances' = [balances EXCEPT ![requests'[id].userId] =
                  @ - requests'[id].amount]
     /\ \A w \in Workers :
          (\/ pc[w] = "idle" /\ pc'[w] = "sub_debit"
           \/ pc[w] \in {"sub_debit", "sub_commit"} /\ pc'[w] # pc[w])
          => IF Ends(w, "sub_commit")
               THEN /\ ~Exists(local[w].id)
                    /\ requests' = [requests EXCEPT ![local[w].id] =
                         [NoRequest EXCEPT !.type = "subscription",
                                           !.userId = local[w].userId,
                                           !.amount = local[w].amount,
                                           !.status = PENDING]]
                    /\ balances' = [balances EXCEPT ![local[w].userId] =
                         @ - local[w].amount]
                    /\ shares' = shares
                    /\ pooledCapital' = pooledCapital
                    /\ res'.op = "subscribeToFund" /\ res'.status = 200
               ELSE UNCHANGED store
     /\ (res'.op = "subscribeToFund" /\ res'.status # 200)
          => UNCHANGED store]_vars

C2_Witness ==
  /\ res.op = "subscribeToFund" /\ res.status = 200
  /\ requests[res.id].status = PENDING
  /\ requests[res.id].type = "subscription"
  /\ balances[res.userId] = InitialBalances[res.userId] - requests[res.id].amount

\* C3: a balance is never negative, whatever subscribeToFund calls run
\* concurrently; a debit of more than the row holds when it is re-read under
\* its lock answers InsufficientFunds and rolls the transaction back (no row,
\* no debit), whatever the balance object fetched earlier held.
C3_BalanceNonNegative ==
  /\ [](\A u \in Users : balances[u] >= 0)
  /\ [][\A w \in Workers :
         (/\ pc[w] = "sub_debit" /\ pc'[w] # "sub_debit"
          /\ local[w].amount > balances[local[w].userId])
         => /\ res'.op = "subscribeToFund"
            /\ res'.error = "InsufficientFunds"
            /\ trx'[w] = NoTrx
            /\ UNCHANGED store]_vars

C3_Witness ==
  /\ res.op = "subscribeToFund" /\ res.error = "InsufficientFunds"
  /\ res.userId = 1
  /\ nextId = MaxRequests + 1
  /\ ~Exists(MaxRequests)
  /\ balances[1] >= 0 /\ balances[1] < InitialBalances[1]

\* C4: a request's status changes only along PENDING_EMAIL_VERIFICATION ->
\* PENDING and PENDING -> APPROVED | DECLINED | CANCELED; a row that is
\* APPROVED, DECLINED or CANCELED never changes again.
C4_StatusEdges ==
  [][\A id \in RequestIds :
       (Exists(id) /\ requests'[id] # requests[id])
       => \/ /\ requests[id].status = PENDING_EMAIL_VERIFICATION
             /\ requests'[id].status = PENDING
          \/ /\ requests[id].status = PENDING
             /\ requests'[id].status \in TerminalStatuses]_vars

\* C5: an admin approve or decline is one atomic step on the committed store.
\* The step that moves a status to APPROVED or DECLINED makes the ledger
\* movement of that (type, decision) in the same step; shares and pooled
\* capital move only in a step that commits an approval, which leaves the
\* request APPROVED, not PENDING; and a patch that answers with an error
\* leaves the store unchanged.
C5_PatchAtomic ==
  [][/\ \A id \in RequestIds :
          (/\ Exists(id)
           /\ requests'[id].status # requests[id].status
           /\ requests'[id].status \in {APPROVED, DECLINED})
          => LET r == requests[id]
                 u == r.userId
                 q == shares[u] - shares'[u]
             IN IF r.type = "subscription" /\ requests'[id].status = APPROVED
                  THEN /\ shares' = [shares EXCEPT ![u] = @ + DecDiv(r.amount, sharePrice)]
                       /\ pooledCapital' = pooledCapital + r.amount
                       /\ balances' = balances
                ELSE IF r.type = "subscription"
                  THEN /\ balances' = [balances EXCEPT ![u] = @ + r.amount]
                       /\ shares' = shares
                       /\ pooledCapital' = pooledCapital
                ELSE IF requests'[id].status = APPROVED
                  THEN /\ shares' = [shares EXCEPT ![u] = @ - q]
                       /\ balances' = [balances EXCEPT ![u] = @ + DecMul(q, sharePrice)]
                       /\ pooledCapital' = pooledCapital - DecMul(q, sharePrice)
                ELSE /\ balances' = balances
                     /\ shares' = shares
                     /\ pooledCapital' = pooledCapital
     /\ (shares' # shares \/ pooledCapital' # pooledCapital)
          => \E w \in Workers : /\ Ends(w, "patch_commit")
                                /\ requests'[local[w].id].status = APPROVED
     /\ (res'.op = "patchInvestmentFundRequest" /\ res'.status # 200)
          => UNCHANGED store]_vars

\* An approval's transaction has run and not yet committed: nothing of it shows.
C5_Witness ==
  \E w \in Workers :
    /\ pc[w] = "patch_commit"
    /\ trx[w].pooledDelta > 0
    /\ requests[trx[w].req].status = PENDING
    /\ pooledCapital = 0
    /\ shares[requests[trx[w].req].userId] = 0

\* C6: the step that commits a cancelRequest sets the (PENDING) request to
\* CANCELED, credits its amount to the owner's balance exactly when it is a
\* subscription, records refunded as whether that credit was made, and moves
\* nothing else; cancelling a redemption moves no balance.
C6_CancelRefunds ==
  [][\A w \in Workers :
       Ends(w, "cancel_commit")
       => LET id == local[w].id
              r == requests[id]
              credited == (r.type = "subscription")
          IN /\ r.status = PENDING
             /\ requests' = [requests EXCEPT ![id] =
                  [r EXCEPT !.status = CANCELED, !.refunded = credited]]
             /\ balances' = [balances EXCEPT ![r.userId] =
                  @ + (IF credited THEN r.amount ELSE 0)]
             /\ shares' = shares
             /\ pooledCapital' = pooledCapital
             /\ res'.op = "cancelRequest" /\ res'.status = 200]_vars

C6_Witness ==
  /\ res.op = "cancelRequest" /\ res.status = 200
  /\ requests[res.id].type = "subscription"
  /\ requests[res.id].status = CANCELED
  /\ requests[res.id].refunded
  /\ nextId = 2
  /\ balances[res.userId] = InitialBalances[res.userId]

\* C7: cancelRequest by its owner on a request that is not cancelable (already
\* CANCELED, APPROVED or DECLINED) answers CannotCancelRequest, code 48, and
\* leaves every row, balance, share and the pooled capital unchanged.
C7_CannotCancel ==
  [][(/\ res'.op = "cancelRequest"
      /\ Exists(res'.id)
      /\ requests[res'.id].userId = res'.userId
      /\ ~isCancelable(requests[res'.id]))
     => /\ res'.status # 200
        /\ res'.code = 48
        /\ res'.error = "CannotCancelRequest"
        /\ UNCHANGED store]_vars

C7_Witness ==
  /\ res.op = "cancelRequest" /\ res.code = 48
  /\ requests[res.id].status = CANCELED
  /\ requests[res.id].refunded
  /\ balances[res.userId] = InitialBalances[res.userId]

\* C8: patchInvestmentFundRequest called on a request that is locked (not
\* PENDING) answers CannotPatchRequest, code 52, changes nothing, and never
\* goes on to a model method.
C8_CannotPatch ==
  [][/\ (/\ res'.op = "patchInvestmentFundRequest"
          /\ pc' = pc
          /\ Exists(res'.id)
          /\ isLocked(requests[res'.id]))
         => /\ res'.status # 200
            /\ res'.code = 52
            /\ res'.error = "CannotPatchRequest"
            /\ UNCHANGED store
     /\ \A w \in Workers :
          (pc[w] = "idle" /\ pc'[w] = "patch_apply")
          => ~isLocked(requests[local'[w].id])]_vars

C8_Witness ==
  /\ res.op = "patchInvestmentFundRequest" /\ res.code = 52
  /\ requests[res.id].status \in TerminalStatuses

\* C9: the step that commits the approval of a PENDING subscription of amount
\* A at share price P adds exactly A to the pooled capital and A / P (to the
\* declared precision) to the user's shares, sets the request APPROVED and
\* leaves every balance unchanged.
C9_ApproveSubscription ==
  [][\A w \in Workers :
       LET id == local[w].id
           r == requests[id]
           u == r.userId
           drift == ((shares'[u] - shares[u]) * sharePrice) - (r.amount * Scale)
       IN (/\ Ends(w, "patch_commit")
           /\ local[w].status = APPROVED
           /\ r.type = "subscription"
           /\ r.status = PENDING)
          => /\ pooledCapital' = pooledCapital + r.amount
             /\ shares' = [shares EXCEPT ![u] = @ + DecDiv(r.amount, sharePrice)]
             /\ 2 * drift <= sharePrice /\ 0 - (2 * drift) <= sharePrice
             /\ requests' = [requests EXCEPT ![id] = [r EXCEPT !.status = APPROVED]]
             /\ balances' = balances]_vars

\* Balance 1000, subscribe 400 at price 2: balance 600, then 200 shares and
\* pooled capital 400 once approved.
C9_Witness ==
  /\ res.op = "patchInvestmentFundRequest" /\ res.status = 200 /\ res.id = 1
  /\ nextId = 2
  /\ sharePrice = Dec(2)
  /\ requests[1].type = "subscription" /\ requests[1].amount = Dec(400)
  /\ requests[1].status = APPROVED
  /\ balances[1] = Dec(600)
  /\ shares[1] = Dec(200)
  /\ pooledCapital = Dec(400)

\* C10: subscribing and then having the subscription declined is a round trip
\* on the balance: the commit of subscribeToFund debits the amount of the row
\* it inserts, and the commit of the decline of that PENDING row credits the
\* same amount, sets it DECLINED and moves no shares and no pooled capital.
C10_DeclineRoundTrip ==
  [][\A w \in Workers :
       LET id == local[w].id
           r == requests[id]
       IN /\ Ends(w, "sub_commit")
             => /\ requests'[id].type = "subscription"
                /\ requests'[id].status = PENDING
                /\ balances' = [balances EXCEPT ![requests'[id].userId] =
                     @ - requests'[id].amount]
          /\ (/\ Ends(w, "patch_commit")
              /\ local[w].status = DECLINED
              /\ r.type = "subscription"
              /\ r.status = PENDING)
             => /\ balances' = [balances EXCEPT ![r.userId] = @ + r.amount]
                /\ requests' = [requests EXCEPT ![id] = [r EXCEPT !.status = DECLINED]]
                /\ shares' = shares
                /\ pooledCapital' = pooledCapital]_vars

C10_Witness ==
  /\ res.op = "patchInvestmentFundRequest" /\ res.status = 200
  /\ nextId = 2
  /\ requests[res.id].type = "subscription"
  /\ requests[res.id].status = DECLINED
  /\ ~requests[res.id].refunded
  /\ balances = InitialBalances
  /\ shares[1] = 0 /\ pooledCapital = 0

\* C11: approving a PENDING redemption liquidates S shares, S being
\* requestPercent * heldShares when a percent was given and the request amount
\* otherwise, computed on the shares held when the approval's transaction
\* reads them; its commit takes S off the user's share record, credits
\* S * sharePrice to the user's balance and sets the request APPROVED (50
\* shares at price 2.5 credit 125, and 200 shares less 50 leave 150). The
\* commit of a redemption's decline sets it DECLINED and moves no balance, no
\* shares and no pooled capital.
C11_ApproveRedemption ==
  /\ DecMul(Dec(50), (5 * Scale) \div 2) = Dec(125)
  /\ Dec(200) - Dec(50) = Dec(150)
  /\ [][\A w \in Workers :
         LET id == local[w].id
             r == requests[id]
             u == r.userId
             S == IF r.requestPercent # 0
                    THEN DecMul(r.requestPercent, shares[u])
                    ELSE r.amount
             liquidated == 0 - trx[w].sharesDelta
         IN /\ (/\ pc[w] = "patch_apply" /\ pc'[w] = "patch_commit"
                 /\ local[w].status = APPROVED
                 /\ r.type = "redemption"
                 /\ r.status = PENDING)
               => /\ trx'[w].sharesDelta = 0 - S
                  /\ trx'[w].balUser = (IF S # 0 THEN u ELSE 0)
                  /\ S # 0 => trx'[w].balAmount = balances[u] + DecMul(S, sharePrice)
                  /\ trx'[w].row = [r EXCEPT !.status = APPROVED]
            /\ (/\ Ends(w, "patch_commit")
                 /\ local[w].status = APPROVED
                 /\ r.type = "redemption"
                 /\ r.status = PENDING)
               => /\ shares' = [shares EXCEPT ![u] = @ - liquidated]
                  /\ balances' = [balances EXCEPT ![u] =
                       @ + DecMul(liquidated, sharePrice)]
                  /\ requests' = [requests EXCEPT ![id] =
                       [r EXCEPT !.status = APPROVED]]
            /\ (/\ Ends(w, "patch_commit")
                 /\ local[w].status = DECLINED
                 /\ r.type = "redemption"
                 /\ r.status = PENDING)
               => /\ requests' = [requests EXCEPT ![id] =
                       [r EXCEPT !.status = DECLINED]]
                  /\ balances' = balances
                  /\ shares' = shares
                  /\ pooledCapital' = pooledCapital]_vars

\* 200 shares from a subscription of 400 at price 2; redeeming 50 of them
\* credits 100 to the balance of 600 and leaves 150 shares.
C11_Witness ==
  /\ res.op = "patchInvestmentFundRequest" /\ res.status = 200 /\ res.id = 2
  /\ requests[1].type = "subscription" /\ requests[1].status = APPROVED
  /\ requests[2].type = "redemption" /\ requests[2].status = APPROVED
  /\ requests[2].amount = Dec(50)
  /\ shares[1] = Dec(150)
  /\ balances[1] = Dec(700)

\* C12: the pooled capital is never negative. The approval of a redemption
\* whose fiat value (its share quantity at the share price) exceeds the pooled
\* capital is rejected with InsufficientFundCapital: its transaction is rolled
\* back, the request keeps its status (PENDING), and no balance, share record
\* or pooled capital changes.
C12_PooledCapital ==
  /\ [](pooledCapital >= 0)
  /\ [][\A w \in Workers :
         LET id == local[w].id
             r == requests[id]
             S == IF r.requestPercent # 0
                    THEN DecMul(r.requestPercent, shares[r.userId])
                    ELSE r.amount
         IN (/\ pc[w] = "patch_apply" /\ pc'[w] # "patch_apply"
             /\ local[w].status = APPROVED
             /\ r.type = "redemption"
             /\ DecMul(S, sharePrice) > pooledCapital)
            => /\ res'.op = "patchInvestmentFundRequest"
               /\ res'.id = id
               /\ res'.status # 200
               /\ res'.error = "InsufficientFundCapital"
               /\ trx'[w] = NoTrx
               /\ UNCHANGED store]_vars

C12_Witness ==
  /\ res.op = "patchInvestmentFundRequest"
  /\ res.error = "InsufficientFundCapital"
  /\ requests[res.id].type = "redemption"
  /\ requests[res.id].status = PENDING
  /\ DecMul(requests[res.id].amount, sharePrice) > pooledCapital
  /\ pooledCapital >= 0

C14_RedeemCreation ==
  [][res'.op = "redeemFromFund"
     => IF res'.status = 200
          THEN /\ res'.id \in RequestIds
               /\ ~Exists(res'.id)
               /\ requests'[res'.id].amount # 0
                    \/ requests'[res'.id].requestPercent # 0
               /\ requests' = [requests EXCEPT ![res'.id] =
                    [NoRequest EXCEPT !.type = "redemption",
                                      !.userId = res'.userId,
                                      !.amount = requests'[res'.id].amount,
                                      !.requestPercent =
                                        requests'[res'.id].requestPercent,
                                      !.status = PENDING]]
               /\ UNCHANGED <<balances, shares, pooledCapital>>
          ELSE /\ UNCHANGED store
               /\ res'.error \in {"InvalidArgument", "NotFound", "Unauthorized"}
               /\ res'.status \in {400, 401, 404}]_vars

\* C15: activateRequest moves a request from PENDING_EMAIL_VERIFICATION to
\* PENDING only for its owner presenting its token; when the caller has no
\* request in PENDING_EMAIL_VERIFICATION with the token presented, it answers
\* NotFound, 404, and no request changes.
C15_Activate ==
  [][res'.op = "activateRequest"
     => LET matching == {id \in RequestIds :
                           /\ Exists(id)
                           /\ requests[id].userId = res'.userId
                           /\ requests[id].authenticationToken \in Tokens
                           /\ requests[id].status = PENDING_EMAIL_VERIFICATION}
        IN IF matching = {}
             THEN /\ res'.status = 404
                  /\ res'.error = "NotFound"
                  /\ UNCHANGED store
             ELSE /\ res'.status = 200
                  /\ \E id \in matching :
                       requests' = [requests EXCEPT ![id].status = PENDING]
                  /\ UNCHANGED <<balances, shares, pooledCapital>>]_vars

\* C16: a subscribeToFund or redeemFromFund call of a user with two-factor
\* enabled and the action not verified persists nothing: it never opens the
\* subscription's transaction, inserts no request, debits no balance, and is
\* answered with an error, which is Unauthorized, 401, unless an earlier test
\* of the handler (the arguments, the fund) already failed.
C16_TwoFactor ==
  [][/\ res'.twofaUnverified
          => /\ res'.op \in {"subscribeToFund", "redeemFromFund"}
             /\ res'.status # 200
             /\ res'.status \notin {404, 500}
                  => res'.status = 401 /\ res'.error = "Unauthorized"
             /\ UNCHANGED <<requests, nextId, balances, shares, pooledCapital,
                            trx>>
     /\ \A w \in Workers : ~local'[w].twofaUnverified]_vars

\* User 1, who has a balance to debit, is refused; nothing was inserted.
C16_Witness ==
  /\ res.op = "subscribeToFund" /\ res.twofaUnverified
  /\ res.status = 401
  /\ res.userId = 1
  /\ nextId = 1
  /\ balances = InitialBalances
  /\ \A w \in Workers : trx[w] = NoTrx

\* C18: cancelRequest on a request id that does not exist, or that is not the
\* caller's, answers NotFound, 404, and changes no request and no balance.
C18_CancelNotFound ==
  [][(/\ res'.op = "cancelRequest"
      /\ ~(Exists(res'.id) /\ requests[res'.id].userId = res'.userId))
     => /\ res'.status = 404
        /\ res'.error = "NotFound"
        /\ UNCHANGED store]_vars

\* The sum of f over the finite set S.
RECURSIVE SumOver(_, _)
SumOver(f, S) ==
  IF S = {} THEN 0
  ELSE LET x == CHOOSE y \in S : TRUE IN f[x] + SumOver(f, S \ {x})

\* What each request still holds of its user's money: the amount debited at
\* its creation, while it is a PENDING subscription.
Reserved ==
  [id \in RequestIds |->
     IF requests[id].type = "subscription" /\ requests[id].status = PENDING
       THEN requests[id].amount ELSE 0]

\* C19: the amount a subscription debited is given back at most once, and not
\* at all once it was approved into shares: whatever cancelRequest,
\* declineSubscription and approveSubscription calls ran on it, in whatever
\* interleaving, no more is credited for a request than it debited. On the
\* store: the balances, the pooled capital and the amounts still held by
\* PENDING subscriptions always add up to the balances the users started with.
C19_NoDoubleCredit ==
  SumOver(balances, Users) + pooledCapital + SumOver(Reserved, RequestIds)
    = SumOver(InitialBalances, Users)

\* C20: a user cancels or activates only their own requests. The commit of a
\* cancelRequest changes only the request its caller owns and only that
\* caller's balance; every other step of a cancelRequest, every cancelRequest
\* called on another user's request, and every activateRequest leaves all
\* requests, balances, share records and the pooled capital unchanged.
C20_OwnRequestsOnly ==
  [][/\ \A w \in Workers :
          /\ Ends(w, "cancel_commit")
               => /\ requests[local[w].id].userId = local[w].caller
                  /\ res'.userId = local[w].caller
                  /\ \A id \in RequestIds :
                       requests'[id] # requests[id]
                         => id = local[w].id /\ requests[id].userId = local[w].caller
                  /\ \A u \in Users :
                       balances'[u] # balances[u] => u = local[w].caller
          /\ (\/ pc[w] = "idle" /\ pc'[w] \in {"cancel_refund", "cancel_commit"}
              \/ pc[w] = "cancel_refund" /\ pc'[w] # pc[w])
               => /\ UNCHANGED store
                  /\ requests[local'[w].id].userId = local'[w].caller
     /\ (/\ res'.op = "cancelRequest"
         /\ Exists(res'.id)
         /\ requests[res'.id].userId # res'.userId)
          => /\ res'.status # 200
             /\ UNCHANGED store
     /\ res'.op = "activateRequest" => UNCHANGED store]_vars

\* User 1's PENDING subscription, which its owner could cancel, after another
\* user's cancelRequest on it: still PENDING, not refunded, nothing credited.
C20_Witness ==
  /\ res.op = "cancelRequest" /\ res.status # 200
  /\ res.userId = 2
  /\ requests[res.id].userId = 1
  /\ requests[res.id].type = "subscription"
  /\ requests[res.id].status = PENDING
  /\ ~requests[res.id].refunded
  /\ balances[2] = InitialBalances[2]
  /\ balances[1] = InitialBalances[1] - requests[res.id].amount

\* C17: fetchPerformance computes, for the fund the user holds shares of,
\* userProfit = profitAmount * userRedeemProfitPercent, platformFee =
\* profitAmount * (1 - userRedeemProfitPercent), currentValue = heldShares *
\* sharePrice - platformFee, initialBasis = currentValue - userProfit and
\* profitPercent = userProfit / initialBasis * 100 to two decimals (percent
\* 0.3, profit 100, holdings worth 500: 30, 70, 430, 400 and 7.50); when
\* initialBasis is 0 the call fails with DivisionByZero and returns no
\* profitPercent.
C17_Performance ==
  /\ PerformanceOf(Dec(250), Dec(2), Dec(100), (3 * Scale) \div 10)
       = [shares |-> Dec(250),
          profitAmount |-> 30 * Scale * Scale,
          investmentValue |-> 430 * Scale * Scale,
          initialInvestment |-> 400 * Scale * Scale,
          profitPercent |-> [kind |-> "number", hundredths |-> 750]]
  /\ (performance.status # 0 /\ shares[performance.userId] > 0)
       => LET userProfit == performance.profitAmount
                             * performance.userRedeemProfitPercent
              platformFee == performance.profitAmount
                              * (Scale - performance.userRedeemProfitPercent)
              currentValue == (shares[performance.userId] * sharePrice)
                               - platformFee
              initialBasis == currentValue - userProfit
          IN IF initialBasis = 0
               THEN /\ performance.status # 200
                    /\ performance.error = "DivisionByZero"
                    /\ performance.entries = <<>>
               ELSE /\ performance.status = 200
                    /\ Len(performance.entries) = 1
                    /\ LET e == performance.entries[1] IN
                         /\ e.profitAmount = userProfit
                         /\ e.investmentValue = currentValue
                         /\ e.initialInvestment = initialBasis
                         /\ e.profitPercent.kind = "number"
                         /\ 2 * Abs((e.profitPercent.hundredths * initialBasis)
                                      - (userProfit * 10000))
                              <= Abs(initialBasis)

\* --------------------------------------------------------------- type check
TypeOK ==
  /\ nextId \in 1..(MaxRequests + 1)
  /\ \A u \in Users : balances[u] \in Int /\ shares[u] \in Int
  /\ pooledCapital \in Int
  /\ \A w \in Workers : pc[w] \in {"idle", "sub_debit", "sub_commit",
                                   "cancel_refund", "cancel_commit",
                                   "patch_apply", "patch_commit"}

====
